---- MODULE Spec2Model ----
(***************************************************************************)
(* Model of the Salesforce OAuth 2.0 + PKCE client:                        *)
(*   utils/pkce.js        verifier store (storeVerifier / getVerifier)     *)
(*   utils/salesforce.js  refreshAccessToken / salesforceApiCall /         *)
(*                        exchangeCodeForTokens                            *)
(*   db.js                salesforce_tokens table                          *)
(*   server.js            /auth, /callback, /disconnect handlers           *)
(* Every await of the code is a suspension point.  A database query takes  *)
(* effect when it is issued, and an HTTP exchange when its response        *)
(* arrives: one action is one such effect together with the handler's own  *)
(* steps that lead to it.                                                  *)
(***************************************************************************)
EXTENDS Integers, Sequences, FiniteSets, TLC

VARIABLES
    now,            \* Date.now(), in milliseconds since the process started
    verifierStore,  \* pkce.js:49  Map state -> {verifier, createdAt}
    rows,           \* db.js  table salesforce_tokens (set of rows)
    nextId,         \* db.js:16  the SERIAL sequence of salesforce_tokens.id
    task,           \* the request handlers (one record per request)
    issued          \* history, per state: n, the number of /auth that issued it;
                    \* verifier and at, the verifier and time of the last one;
                    \* taken, the number of /callback that got a verifier for it;
                    \* used, whether a /callback looked it up since the last /auth

vars == <<now, verifierStore, rows, nextId, task, issued>>

----------------------------------------------------------------------------
(* Bounds of the model *)

MaxRequests == 2
MaxAuth == 2
MaxTtlSpans == 1

\* Every request the server handles is one task, numbered in order of arrival
Tasks == 1..MaxRequests

\* The random part of a state token (8 random bytes): two values, so that two
\* tokens of the same millisecond can differ or collide
Randoms == {"r1", "r2"}

----------------------------------------------------------------------------
(* pkce.js: PKCE verifier store *)

VERIFIER_TTL == 30 * 60 * 1000

\* null, where a verifier is expected
NullVerifier == 0
NoState == <<>>
Forged == <<-1, "r1">>

\* generateState: `${Date.now().toString(36)}-${randomBytes(8).toString('hex')}`;
\* both encodings are injective, so the token is the pair it encodes.
generateState(t, rnd) == <<t, rnd>>

Expired(entry, t) == t - entry.createdAt > VERIFIER_TTL

\* Faulty variant of cleanupExpiredVerifiers: nothing is swept
cleanupNothing(store, t) == store

cleanupExpiredVerifiers(store, t) ==
    [s \in {x \in DOMAIN store : ~Expired(store[x], t)} |-> store[s]]

MapSet(store, k, v) ==
    [s \in DOMAIN store \cup {k} |-> IF s = k THEN v ELSE store[s]]

\* Faulty variant of MapDelete: the entry is not removed
MapDeleteNothing(store, k) == store

MapDelete(store, k) == [s \in DOMAIN store \ {k} |-> store[s]]

\* Faulty variant of storeVerifier: an entry already present is not replaced
storeVerifierKeepOld(store, state, verifier, t) ==
    LET swept == cleanupExpiredVerifiers(store, t)
    IN  IF state \in DOMAIN swept THEN swept
        ELSE MapSet(swept, state, [verifier |-> verifier, createdAt |-> t])

storeVerifier(store, state, verifier, t) ==
    MapSet(cleanupExpiredVerifiers(store, t), state,
           [verifier |-> verifier, createdAt |-> t])

\* Faulty variant of getVerifier: the lookup also sweeps the expired entries
getVerifierSweep(store, state, t) ==
    IF state \notin DOMAIN store
    THEN [ret |-> NullVerifier, store |-> cleanupExpiredVerifiers(store, t)]
    ELSE [ret |-> IF Expired(store[state], t) THEN NullVerifier
                  ELSE store[state].verifier,
          store |-> cleanupExpiredVerifiers(MapDelete(store, state), t)]

\* Faulty variant of getVerifier: the age is checked before the entry is removed,
\* so an expired entry stays in the store
getVerifierCheckFirst(store, state, t) ==
    IF state \notin DOMAIN store \/ Expired(store[state], t)
    THEN [ret |-> NullVerifier, store |-> store]
    ELSE [ret |-> store[state].verifier, store |-> MapDelete(store, state)]

\* getVerifier returns the pair (value returned, store afterwards)
getVerifier(store, state, t) ==
    IF state \notin DOMAIN store
    THEN [ret |-> NullVerifier, store |-> store]
    ELSE [ret |-> IF Expired(store[state], t) THEN NullVerifier
                  ELSE store[state].verifier,
          store |-> MapDelete(store, state)]

----------------------------------------------------------------------------
(* db.js: the salesforce_tokens table.  created_at / updated_at are left   *)
(* out: no query of the program selects on them or returns them.           *)

TokenResponses ==
    { [access_token |-> "AT1", refresh_token |-> "RT1", instance_url |-> "U1"],
      [access_token |-> "AT2", refresh_token |-> "RT2", instance_url |-> "U2"] }

\* The value getTokens returns for an empty table (null)
NoTokens == [id |-> 0, accessToken |-> "", refreshToken |-> "", instanceUrl |-> ""]

MaxRowId(table) == CHOOSE i \in {r.id : r \in table} : \A r \in table : r.id <= i

\* SELECT * FROM salesforce_tokens ORDER BY id DESC LIMIT 1
getTokens(table) ==
    IF table = {} THEN NoTokens
    ELSE LET r == CHOOSE x \in table : x.id = MaxRowId(table)
         IN  [id |-> r.id, accessToken |-> r.access_token,
              refreshToken |-> r.refresh_token, instanceUrl |-> r.instance_url]

\* Faulty variant of hasTokens: one row does not count
hasTokensMany(table) == Cardinality(table) > 1

\* SELECT COUNT(*) FROM salesforce_tokens ... > 0
hasTokens(table) == Cardinality(table) > 0

\* Faulty variant of deleteTokens: only the newest row is deleted
deleteTokensNewest(table) == {r \in table : \E x \in table : x.id > r.id}

\* DELETE FROM salesforce_tokens
deleteTokens(table) == {}

\* Faulty variant of storeTokensDelete: nothing is deleted
storeTokensDeleteNothing(table) == table

\* storeTokens, first query: DELETE FROM salesforce_tokens
storeTokensDelete(table) == {}

\* storeTokens, second query: INSERT ... RETURNING id
storeTokensInsert(table, id, accessToken, refreshToken, instanceUrl) ==
    table \cup { [id |-> id, access_token |-> accessToken,
                  refresh_token |-> refreshToken, instance_url |-> instanceUrl] }

\* Faulty variant of updateAccessToken: the newest row is updated, whatever id
updateAccessTokenNewest(table, id, newAccessToken) ==
    { IF \A x \in table : x.id <= r.id
      THEN [r EXCEPT !.access_token = newAccessToken] ELSE r : r \in table }

\* Faulty variant of updateAccessToken: a row that is missing is inserted
updateAccessTokenUpsert(table, id, newAccessToken) ==
    IF \E r \in table : r.id = id
    THEN { IF r.id = id THEN [r EXCEPT !.access_token = newAccessToken] ELSE r :
              r \in table }
    ELSE table \cup { [id |-> id, access_token |-> newAccessToken,
                       refresh_token |-> "", instance_url |-> ""] }

\* Faulty variant of updateAccessToken: the WHERE clause is missing
updateAccessTokenAll(table, id, newAccessToken) ==
    { [r EXCEPT !.access_token = newAccessToken] : r \in table }

\* UPDATE salesforce_tokens SET access_token = $1 WHERE id = $2
updateAccessToken(table, id, newAccessToken) ==
    { IF r.id = id THEN [r EXCEPT !.access_token = newAccessToken] ELSE r : r \in table }

----------------------------------------------------------------------------
(* Request handlers *)

NoResult == [kind |-> "none", status |-> 0, body |-> "", cause |-> "", id |-> 0]

Result(kind, status, body, cause, id) ==
    [kind |-> kind, status |-> status, body |-> body, cause |-> cause, id |-> id]

NoTokenResponse == [access_token |-> "", refresh_token |-> "", instance_url |-> ""]
NoData == [access_token |-> "", instance_url |-> ""]
NoNewTokens == [accessToken |-> "", instanceUrl |-> ""]
NoRequest == [accessToken |-> "", instanceUrl |-> ""]

IdleTask ==
    [ pc            |-> "idle",
      op            |-> "none",          \* "callback", "call" or "refresh"
      state         |-> NoState,         \* /callback: req.query.state
      codeVerifier  |-> NullVerifier,    \* /callback: codeVerifier
      tokenResponse |-> NoTokenResponse, \* /callback: tokenResponse
      alone         |-> FALSE,           \* history: no other storeTokens overlapped
      tokens        |-> NoTokens,        \* salesforceApiCall: tokens
      rtokens       |-> NoTokens,        \* refreshAccessToken: tokens
      data          |-> NoData,          \* refreshAccessToken: data
      newTokens     |-> NoNewTokens,     \* salesforceApiCall: newTokens
      request       |-> NoRequest,       \* the API request in flight (makeRequest)
      nRequests     |-> 0,               \* history: API requests issued
      recv          |-> <<>>,            \* history: API responses received
      nRefresh      |-> 0,               \* history: refreshAccessToken invocations
      tokenReqs     |-> 0,               \* history: refresh POSTs to the token endpoint
      result        |-> NoResult ]

\* The table outlives the process: at start it is empty, or holds the credential
\* an earlier run stored
PersistedRow ==
    [id |-> 1, access_token |-> "AT0", refresh_token |-> "RT0", instance_url |-> "U0"]

RECURSIVE SumIssued(_, _)
SumIssued(f, S) ==
    IF S = {} THEN 0
    ELSE LET s == CHOOSE x \in S : TRUE IN f[s].n + SumIssued(f, S \ {s})

TotalIssued == SumIssued(issued, DOMAIN issued)

Init ==
    /\ now = 0
    /\ verifierStore = <<>>
    /\ \E table \in {{}, {PersistedRow}} :
          /\ rows = table
          /\ nextId = Cardinality(table) + 1
    /\ task = [t \in Tasks |-> IdleTask]
    /\ issued = <<>>

\* Time passes between two events of the event loop.  The clock is followed for
\* MaxTtlSpans whole TTLs, and one millisecond past each.
Tick(d) ==
    /\ (now + d) \div VERIFIER_TTL <= MaxTtlSpans
    /\ (now + d) % VERIFIER_TTL <= 1
    /\ now' = now + d
    /\ UNCHANGED <<verifierStore, rows, nextId, task, issued>>

\* generateCodeVerifier: 32 random bytes; the k-th draw of the process is a value
\* no earlier draw returned, written k
generateCodeVerifier(k) == k

\* GET /auth (synchronous handler)
Auth(rnd) ==
    /\ TotalIssued < MaxAuth
    /\ LET state == generateState(now, rnd)
           codeVerifier == generateCodeVerifier(TotalIssued + 1)
           n == IF state \in DOMAIN issued THEN issued[state].n ELSE 0
           k == IF state \in DOMAIN issued THEN issued[state].taken ELSE 0
       IN  /\ verifierStore' = storeVerifier(verifierStore, state, codeVerifier, now)
           /\ issued' = MapSet(issued, state,
                               [n |-> n + 1, verifier |-> codeVerifier,
                                at |-> now, taken |-> k, used |-> FALSE])
    /\ UNCHANGED <<now, rows, nextId, task>>

\* Request t arrives: the requests before it have arrived
Arrives(t) == task[t].pc = "idle" /\ \A u \in Tasks : u < t => task[u].pc # "idle"

\* The handler (record me) returns or throws res: its frame is dropped; what it
\* was asked, its outcome and the history of what it did remain
Return(me, res) ==
    [IdleTask EXCEPT !.pc = "done", !.op = me.op, !.result = res, !.state = me.state,
                     !.alone = me.alone, !.nRequests = me.nRequests, !.recv = me.recv,
                     !.nRefresh = me.nRefresh, !.tokenReqs = me.tokenReqs]

Done(t, res) == [task EXCEPT ![t] = Return(task[t], res)]

\* Faulty variant of CallbackBegin: the verifier returned is not checked
CallbackBeginUnchecked(t, code, state, error) ==
    /\ Arrives(t)
    /\ LET g == getVerifier(verifierStore, state, now)
           rej == [task[t] EXCEPT !.op = "callback"]
           me == [rej EXCEPT !.state = state]
       IN  IF error
           THEN /\ task' = [task EXCEPT ![t] =
                               Return(rej, Result("OAuthError", 400, "", "", 0))]
                /\ UNCHANGED <<verifierStore, issued>>
           ELSE IF ~code \/ state = NoState
           THEN /\ task' = [task EXCEPT ![t] =
                               Return(rej, Result("MissingParam", 400, "", "", 0))]
                /\ UNCHANGED <<verifierStore, issued>>
           ELSE /\ verifierStore' = g.store
                /\ task' = [task EXCEPT ![t] =
                       [me EXCEPT !.pc = "cb_exchange", !.codeVerifier = g.ret]]
                /\ issued' = [s \in DOMAIN issued |->
                       IF s # state THEN issued[s]
                       ELSE [issued[s] EXCEPT !.used = TRUE,
                                !.taken = IF g.ret = NullVerifier THEN @ ELSE @ + 1]]
    /\ UNCHANGED <<now, rows, nextId>>

\* GET /callback, up to the await of exchangeCodeForTokens
CallbackBegin(t, code, state, error) ==
    /\ Arrives(t)
    /\ LET g == getVerifier(verifierStore, state, now)
           rej == [task[t] EXCEPT !.op = "callback"]
           me == [rej EXCEPT !.state = state]
       IN  IF error
           THEN /\ task' = [task EXCEPT ![t] =
                               Return(rej, Result("OAuthError", 400, "", "", 0))]
                /\ UNCHANGED <<verifierStore, issued>>
           ELSE IF ~code \/ state = NoState
           THEN /\ task' = [task EXCEPT ![t] =
                               Return(rej, Result("MissingParam", 400, "", "", 0))]
                /\ UNCHANGED <<verifierStore, issued>>
           ELSE /\ verifierStore' = g.store
                /\ task' = [task EXCEPT ![t] =
                       IF g.ret = NullVerifier
                       THEN Return(me, Result("InvalidState", 400, "", "", 0))
                       ELSE [me EXCEPT !.pc = "cb_exchange", !.codeVerifier = g.ret]]
                /\ issued' = [s \in DOMAIN issued |->
                       IF s # state THEN issued[s]
                       ELSE [issued[s] EXCEPT !.used = TRUE,
                                !.taken = IF g.ret = NullVerifier THEN @ ELSE @ + 1]]
    /\ UNCHANGED <<now, rows, nextId>>

\* Request t is inside storeTokens: its DELETE has run, its INSERT has not
InStoreTokens(t) == task[t].pc = "st_insert"

\* /callback: exchangeCodeForTokens answers; on success storeTokens is entered
\* and its DELETE runs
CallbackExchange(t, ok, resp) ==
    /\ task[t].pc = "cb_exchange"
    /\ IF ok
       THEN /\ rows' = storeTokensDelete(rows)
            /\ task' = [u \in Tasks |->
                   IF u = t
                   THEN [task[t] EXCEPT !.pc = "st_insert", !.tokenResponse = resp,
                            !.alone = \A o \in Tasks \ {t} : ~InStoreTokens(o)]
                   ELSE IF InStoreTokens(u) THEN [task[u] EXCEPT !.alone = FALSE]
                   ELSE task[u]]
       ELSE /\ task' = Done(t, Result("ExchangeFailed", 500, "", "", 0))
            /\ UNCHANGED rows
    /\ UNCHANGED <<now, verifierStore, nextId, issued>>

\* storeTokens: the INSERT query runs and returns the new id; /callback answers
StoreTokensInsert(t) ==
    /\ task[t].pc = "st_insert"
    /\ rows' = storeTokensInsert(rows, nextId, task[t].tokenResponse.access_token,
                                 task[t].tokenResponse.refresh_token,
                                 task[t].tokenResponse.instance_url)
    /\ nextId' = nextId + 1
    /\ task' = Done(t, Result("Connected", 200, "", "", nextId))
    /\ UNCHANGED <<now, verifierStore, issued>>

\* POST /disconnect: deleteTokens
Disconnect ==
    /\ rows' = deleteTokens(rows)
    /\ UNCHANGED <<now, verifierStore, nextId, task, issued>>

----------------------------------------------------------------------------
(* utils/salesforce.js: refreshAccessToken and salesforceApiCall *)

\* What the API answers: a status and a body
Responses ==
    { [status |-> 200, body |-> "B200"], [status |-> 401, body |-> "B401"],
      [status |-> 500, body |-> "B500"] }

\* What the token endpoint answers to a refresh grant; instance_url may be absent ("")
RefreshData ==
    { [access_token |-> "AT3", instance_url |-> ""],
      [access_token |-> "AT4", instance_url |-> "U3"] }

\* response.ok
Ok(status) == status >= 200 /\ status <= 299

\* makeRequest(accessToken, instanceUrl)
makeRequest(accessToken, instanceUrl) ==
    [accessToken |-> accessToken, instanceUrl |-> instanceUrl]

\* salesforceApiCall lines 200-211: the outcome decided by the last response
ApiOutcome(response) ==
    IF ~Ok(response.status)
    THEN Result("ApiError", response.status, response.body, "", 0)
    ELSE Result("ok", response.status, response.body, "", 0)

\* An error thrown by refreshAccessToken: rethrown by the catch of
\* salesforceApiCall, or surfaced as it is to a direct caller
RefreshError(op, cause) ==
    IF op = "call"
    THEN Result("RefreshFailed", 0, "", cause, 0)
    ELSE Result(cause, 0, "", "", 0)

\* Faulty variant of CallGet: the request is issued whatever getTokens returned
CallGetUnchecked(t) ==
    /\ Arrives(t)
    /\ LET tokens == getTokens(rows)
       IN  task' = [task EXCEPT ![t].op = "call", ![t].tokens = tokens,
                        ![t].pc = "call_req1",
                        ![t].request = makeRequest(tokens.accessToken, tokens.instanceUrl),
                        ![t].nRequests = @ + 1]
    /\ UNCHANGED <<now, verifierStore, rows, nextId, issued>>

\* salesforceApiCall is invoked: getTokens runs; the first request is issued
CallGet(t) ==
    /\ Arrives(t)
    /\ LET tokens == getTokens(rows)
           me == [task[t] EXCEPT !.op = "call"]
       IN  IF tokens = NoTokens
           THEN task' = [task EXCEPT ![t] =
                            Return(me, Result("NotConnected", 0, "", "", 0))]
           ELSE task' = [task EXCEPT ![t] =
                            [me EXCEPT !.tokens = tokens, !.pc = "call_req1",
                                !.request = makeRequest(tokens.accessToken,
                                                        tokens.instanceUrl),
                                !.nRequests = @ + 1]]
    /\ UNCHANGED <<now, verifierStore, rows, nextId, issued>>

\* Faulty variant of RefreshGet: the grant is posted whatever getTokens returned
RefreshGetUnchecked(me, table) ==
    [me EXCEPT !.rtokens = getTokens(table), !.pc = "rf_post",
               !.nRefresh = @ + 1, !.tokenReqs = @ + 1]

\* refreshAccessToken is invoked by the handler (record me): getTokens runs; the
\* refresh grant is posted
RefreshGet(me, table) ==
    LET tokens == getTokens(table)
        inv == [me EXCEPT !.nRefresh = @ + 1]
    IN  IF tokens = NoTokens
        THEN Return(inv, RefreshError(me.op, "NoCredential"))
        ELSE [inv EXCEPT !.rtokens = tokens, !.pc = "rf_post", !.tokenReqs = @ + 1]

\* Faulty variant of CallResponse1: every non-success status starts a refresh
CallResponse1RefreshOnError(t, response) ==
    /\ task[t].pc = "call_req1"
    /\ LET me == [task[t] EXCEPT !.recv = Append(@, response)]
       IN  IF ~Ok(response.status)
           THEN task' = [task EXCEPT ![t] = RefreshGet(me, rows)]
           ELSE task' = [task EXCEPT ![t] = Return(me, ApiOutcome(response))]
    /\ UNCHANGED <<now, verifierStore, rows, nextId, issued>>

\* Faulty variant of CallResponse1: on 401 the request is sent again as it is
CallResponse1Resend(t, response) ==
    /\ task[t].pc = "call_req1"
    /\ LET me == [task[t] EXCEPT !.recv = Append(@, response)]
       IN  IF response.status = 401 /\ task[t].nRequests <= MaxRequests
           THEN task' = [task EXCEPT ![t] = [me EXCEPT !.nRequests = @ + 1]]
           ELSE task' = [task EXCEPT ![t] = Return(me, ApiOutcome(response))]
    /\ UNCHANGED <<now, verifierStore, rows, nextId, issued>>

\* The first response arrives; on 401 refreshAccessToken is invoked
CallResponse1(t, response) ==
    /\ task[t].pc = "call_req1"
    /\ LET me == [task[t] EXCEPT !.recv = Append(@, response)]
       IN  IF response.status = 401
           THEN task' = [task EXCEPT ![t] = RefreshGet(me, rows)]
           ELSE task' = [task EXCEPT ![t] = Return(me, ApiOutcome(response))]
    /\ UNCHANGED <<now, verifierStore, rows, nextId, issued>>

\* refreshAccessToken is invoked directly
RefreshStart(t) ==
    /\ Arrives(t)
    /\ task' = [task EXCEPT ![t] = RefreshGet([task[t] EXCEPT !.op = "refresh"], rows)]
    /\ UNCHANGED <<now, verifierStore, rows, nextId, issued>>

\* Faulty variant of RefreshReturn: no fallback to the instance URL read
RefreshReturnNoFallback(data, tokens) ==
    [accessToken |-> data.access_token, instanceUrl |-> data.instance_url]

\* refreshAccessToken lines 146-149: the value returned
RefreshReturn(data, tokens) ==
    [accessToken |-> data.access_token,
     instanceUrl |-> IF data.instance_url # "" THEN data.instance_url
                     ELSE tokens.instanceUrl]

\* Faulty variant of RefreshResponse: inside a call a rejected grant is passed
\* over and the call goes on to reload the Credential
RefreshResponseSwallow(t, ok, data) ==
    /\ task[t].pc = "rf_post"
    /\ IF ~ok
       THEN /\ IF task[t].op = "call"
               THEN task' = [task EXCEPT ![t].pc = "call_reload"]
               ELSE task' = Done(t, RefreshError(task[t].op, "RefreshRejected"))
            /\ UNCHANGED rows
       ELSE /\ rows' = updateAccessToken(rows, task[t].rtokens.id, data.access_token)
            /\ LET me == [task[t] EXCEPT !.data = data,
                              !.newTokens = RefreshReturn(data, task[t].rtokens)]
               IN  IF task[t].op = "call"
                   THEN task' = [task EXCEPT ![t] = [me EXCEPT !.pc = "call_reload"]]
                   ELSE task' = [task EXCEPT ![t] =
                                    [Return(me, Result("Refreshed", 0, "", "", 0))
                                        EXCEPT !.newTokens = me.newTokens]]
    /\ UNCHANGED <<now, verifierStore, nextId, issued>>

\* Faulty variant of RefreshResponse: a rejected grant is posted again
RefreshResponseRetry(t, ok, data) ==
    /\ task[t].pc = "rf_post"
    /\ task[t].tokenReqs <= MaxRequests
    /\ IF ~ok
       THEN /\ task' = [task EXCEPT ![t].tokenReqs = @ + 1]
            /\ UNCHANGED rows
       ELSE /\ rows' = updateAccessToken(rows, task[t].rtokens.id, data.access_token)
            /\ LET me == [task[t] EXCEPT !.data = data,
                              !.newTokens = RefreshReturn(data, task[t].rtokens)]
               IN  IF task[t].op = "call"
                   THEN task' = [task EXCEPT ![t] = [me EXCEPT !.pc = "call_reload"]]
                   ELSE task' = [task EXCEPT ![t] =
                                    [Return(me, Result("Refreshed", 0, "", "", 0))
                                        EXCEPT !.newTokens = me.newTokens]]
    /\ UNCHANGED <<now, verifierStore, nextId, issued>>

\* refreshAccessToken: the token endpoint answers; on success the UPDATE runs and
\* the function returns
RefreshResponse(t, ok, data) ==
    /\ task[t].pc = "rf_post"
    /\ IF ~ok
       THEN /\ task' = Done(t, RefreshError(task[t].op, "RefreshRejected"))
            /\ UNCHANGED rows
       ELSE /\ rows' = updateAccessToken(rows, task[t].rtokens.id, data.access_token)
            /\ LET me == [task[t] EXCEPT !.data = data,
                              !.newTokens = RefreshReturn(data, task[t].rtokens)]
               IN  IF task[t].op = "call"
                   THEN task' = [task EXCEPT ![t] = [me EXCEPT !.pc = "call_reload"]]
                   ELSE task' = [task EXCEPT ![t] =
                                    [Return(me, Result("Refreshed", 0, "", "", 0))
                                        EXCEPT !.newTokens = me.newTokens]]
    /\ UNCHANGED <<now, verifierStore, nextId, issued>>

\* Faulty variant of CallReload: when the reload finds no Credential the
\* request is reissued with the tokens read at the start of the call
CallReloadFallback(t) ==
    /\ task[t].pc = "call_reload"
    /\ LET read == getTokens(rows)
           tokens == IF read = NoTokens THEN task[t].tokens ELSE read
       IN  task' = [task EXCEPT ![t].tokens = tokens, ![t].pc = "call_req2",
                        ![t].request = makeRequest(tokens.accessToken, tokens.instanceUrl),
                        ![t].nRequests = @ + 1]
    /\ UNCHANGED <<now, verifierStore, rows, nextId, issued>>

\* Faulty variant of CallReload: the request is reissued with the tokens read at
\* the start of the call
CallReloadStale(t) ==
    /\ task[t].pc = "call_reload"
    /\ task' = [task EXCEPT ![t].pc = "call_req2",
                    ![t].request = makeRequest(task[t].tokens.accessToken,
                                               task[t].tokens.instanceUrl),
                    ![t].nRequests = @ + 1]
    /\ UNCHANGED <<now, verifierStore, rows, nextId, issued>>

\* salesforceApiCall lines 193-194: getTokens runs; the request is reissued.
\* On an empty table tokens is null and tokens.accessToken throws inside the try.
CallReload(t) ==
    /\ task[t].pc = "call_reload"
    /\ LET tokens == getTokens(rows)
       IN  IF tokens = NoTokens
           THEN task' = Done(t, Result("RefreshFailed", 0, "", "TypeError", 0))
           ELSE task' = [task EXCEPT ![t].tokens = tokens, ![t].pc = "call_req2",
                             ![t].request = makeRequest(tokens.accessToken, tokens.instanceUrl),
                             ![t].nRequests = @ + 1]
    /\ UNCHANGED <<now, verifierStore, rows, nextId, issued>>

\* Faulty variant of CallResponse2: a second 401 starts another refresh
CallResponse2Retry(t, response) ==
    /\ task[t].pc = "call_req2"
    /\ LET me == [task[t] EXCEPT !.recv = Append(@, response)]
       IN  IF response.status = 401
           THEN task' = [task EXCEPT ![t] = RefreshGet(me, rows)]
           ELSE task' = [task EXCEPT ![t] = Return(me, ApiOutcome(response))]
    /\ UNCHANGED <<now, verifierStore, rows, nextId, issued>>

\* The second response arrives
CallResponse2(t, response) ==
    /\ task[t].pc = "call_req2"
    /\ task' = [task EXCEPT ![t] =
                   Return([task[t] EXCEPT !.recv = Append(@, response)],
                          ApiOutcome(response))]
    /\ UNCHANGED <<now, verifierStore, rows, nextId, issued>>

----------------------------------------------------------------------------
(* Specification *)

\* What a /callback request can present as its state parameter
PresentableStates == DOMAIN issued \cup {Forged, NoState}

\* The verifier store: /auth and /callback up to the await of the exchange
NextPkce ==
    \/ \E d \in {1, VERIFIER_TTL} : Tick(d)
    \/ \E rnd \in Randoms : Auth(rnd)
    \/ \E t \in Tasks, code \in BOOLEAN, s \in PresentableStates, e \in BOOLEAN :
          CallbackBegin(t, code, s, e)

\* The authorization flow from /auth to the stored credential, and /disconnect,
\* within one instant of the clock (expiry is followed in NextPkce)
NextFlow ==
    \/ \E rnd \in Randoms : Auth(rnd)
    \/ \E t \in Tasks, code \in BOOLEAN, s \in PresentableStates, e \in BOOLEAN :
          CallbackBegin(t, code, s, e)
    \/ \E t \in Tasks, ok \in BOOLEAN, resp \in TokenResponses : CallbackExchange(t, ok, resp)
    \/ \E t \in Tasks : StoreTokensInsert(t)
    \/ Disconnect

\* The token refresher and the API gateway over the credential the table holds
\* at start, with /disconnect
NextGateway ==
    \/ Disconnect
    \/ \E t \in Tasks : CallGet(t)
    \/ \E t \in Tasks, r \in Responses : CallResponse1(t, r)
    \/ \E t \in Tasks : RefreshStart(t)
    \/ \E t \in Tasks, ok \in BOOLEAN, data \in RefreshData : RefreshResponse(t, ok, data)
    \/ \E t \in Tasks : CallReload(t)
    \/ \E t \in Tasks, r \in Responses : CallResponse2(t, r)

\* The gateway and the refresher racing with the authorization flow and
\* /disconnect: every /callback is a well-formed one that presents a pending
\* state, and the states are those of one instant with one random part
NextRace ==
    \/ \E rnd \in {CHOOSE r \in Randoms : TRUE} : Auth(rnd)
    \/ \E t \in Tasks, s \in DOMAIN verifierStore : CallbackBegin(t, TRUE, s, FALSE)
    \/ \E t \in Tasks, resp \in TokenResponses : CallbackExchange(t, TRUE, resp)
    \/ \E t \in Tasks : StoreTokensInsert(t)
    \/ Disconnect
    \/ \E t \in Tasks : CallGet(t)
    \/ \E t \in Tasks, r \in Responses : CallResponse1(t, r)
    \/ \E t \in Tasks : RefreshStart(t)
    \/ \E t \in Tasks, ok \in BOOLEAN, data \in RefreshData : RefreshResponse(t, ok, data)
    \/ \E t \in Tasks : CallReload(t)
    \/ \E t \in Tasks, r \in Responses : CallResponse2(t, r)

\* The whole server
Next == NextPkce \/ NextFlow \/ NextGateway

Spec == Init /\ [][Next]_vars

SpecPkce == Init /\ [][NextPkce]_vars

SpecFlow == Init /\ [][NextFlow]_vars

SpecGateway == Init /\ [][NextGateway]_vars

SpecRace == Init /\ [][NextRace]_vars

\* What request t does when what it awaits (an HTTP response, the answer to a
\* query) arrives
GatewayStep(t) ==
    \/ \E r \in Responses : CallResponse1(t, r)
    \/ \E ok \in BOOLEAN, data \in RefreshData : RefreshResponse(t, ok, data)
    \/ CallReload(t)
    \/ \E r \in Responses : CallResponse2(t, r)

\* SpecGateway where every outstanding request eventually gets its response
SpecGatewayLive ==
    SpecGateway /\ \A t \in Tasks : WF_vars(GatewayStep(t))

----------------------------------------------------------------------------
(* Properties of the verifier store (SpecPkce) and of the authorization    *)
(* flow (SpecFlow)                                                         *)

\* In this step request t is a /callback that passes the parameter checks and
\* calls getVerifier(task'[t].state)
Takes(t) ==
    /\ task[t].pc = "idle"
    /\ task'[t].op = "callback"
    /\ task'[t].result.kind \notin {"OAuthError", "MissingParam"}

\* Request t is a /callback that got a verifier from getVerifier
Took(t) ==
    /\ task[t].op = "callback"
    /\ \/ task[t].pc \in {"cb_exchange", "st_insert"}
       \/ task[t].result.kind \in {"Connected", "ExchangeFailed"}

\* C1: one-time use.  The first take(state) after put(state, v), made while the
\* entry is not older than the TTL, returns exactly v; any further take(state)
\* with no put(state, ...) in between returns "not found".
C1_OneTimeUse ==
    [][\A t \in Tasks :
          (Takes(t) /\ task'[t].state \in DOMAIN issued) =>
             LET h == issued[task'[t].state]
             IN  /\ (~h.used /\ now - h.at <= VERIFIER_TTL) =>
                       /\ task'[t].pc = "cb_exchange"
                       /\ task'[t].codeVerifier = h.verifier
                 /\ h.used => /\ task'[t].pc = "done"
                              /\ task'[t].result.kind = "InvalidState"]_vars

\* A state put twice (the second put replacing the verifier), taken at age TTL by
\* request 1, which got the second verifier, and presented again by request 2
C1_Witness ==
    \E s \in DOMAIN issued :
       /\ issued[s].n = 2 /\ issued[s].taken = 1
       /\ now - issued[s].at = VERIFIER_TTL
       /\ task[1].pc = "cb_exchange" /\ task[1].state = s
       /\ task[1].codeVerifier = issued[s].verifier
       /\ task[2].pc = "done" /\ task[2].state = s
       /\ task[2].result.kind = "InvalidState"

\* C2: expiry.  A take(state) on an entry older than the TTL returns "not found",
\* and the entry is removed from the store by that take.
C2_ExpiredTake ==
    [][\A t \in Tasks :
          LET s == task'[t].state
          IN  (/\ Takes(t)
               /\ s \in DOMAIN verifierStore
               /\ now - verifierStore[s].createdAt > VERIFIER_TTL) =>
                  /\ task'[t].pc = "done"
                  /\ task'[t].result.kind = "InvalidState"
                  /\ s \notin DOMAIN verifierStore']_vars

\* A /callback rejected for a state that was issued once, never taken, and is now
\* one millisecond older than the TTL; the entry is gone
C2_Witness ==
    \E t \in Tasks, s \in DOMAIN issued :
       /\ task[t].pc = "done" /\ task[t].state = s
       /\ task[t].result.kind = "InvalidState"
       /\ issued[s].n = 1 /\ issued[s].taken = 0 /\ issued[s].used
       /\ now - issued[s].at = VERIFIER_TTL + 1
       /\ s \notin DOMAIN verifierStore

\* C3: each state is consumed at most once.  A state issued by one /auth leads to
\* at most one authorization-code exchange (more generally, never to more
\* exchanges than /auth requests issued it), and no two callbacks both get a
\* verifier for it: the later one is rejected as an invalid state.
C3_ConsumedAtMostOnce ==
    /\ \A s \in DOMAIN issued : issued[s].taken <= issued[s].n
    /\ \A t, u \in Tasks :
          (/\ t # u /\ Took(t)
           /\ task[u].op = "callback" /\ task[u].state = task[t].state
           /\ issued[task[t].state].n = 1) =>
              /\ ~Took(u)
              /\ task[u].result.kind = "InvalidState"

\* Request 1 took the verifier of a state issued once and its exchange failed;
\* request 2 presented the same state and was rejected
C3_Witness ==
    \E s \in DOMAIN issued :
       /\ issued[s].n = 1 /\ issued[s].taken = 1
       /\ task[1].state = s /\ task[1].result.kind = "ExchangeFailed"
       /\ task[2].state = s /\ task[2].result.kind = "InvalidState"

\* C17: InvalidState leaves credentials alone.  A /callback presenting a state
\* with no stored verifier, with an expired one, or with one already consumed
\* is rejected as InvalidState (400) at once: no authorization-code exchange is
\* started and the Credential Store is unchanged.
C17_InvalidStateNoEffect ==
    [][\A t \in Tasks :
          LET s == task'[t].state
          IN  (/\ Takes(t)
               /\ \/ s \notin DOMAIN verifierStore
                  \/ now - verifierStore[s].createdAt > VERIFIER_TTL
                  \/ (s \in DOMAIN issued /\ issued[s].used)) =>
                  /\ task'[t].pc = "done"
                  /\ task'[t].result.kind = "InvalidState"
                  /\ task'[t].result.status = 400
                  /\ rows' = rows
                  /\ nextId' = nextId]_vars

\* Request 1 presented a state no /auth issued, request 2 a state issued once
\* and by now older than the TTL: both were rejected, the table is as at start
C17_Witness ==
    \E s \in DOMAIN issued :
       /\ task[1].state = Forged /\ task[1].result.kind = "InvalidState"
       /\ task[2].state = s /\ task[2].result.kind = "InvalidState"
       /\ issued[s].n = 1 /\ issued[s].taken = 0
       /\ now - issued[s].at > VERIFIER_TTL
       /\ rows \in {{}, {PersistedRow}}

\* C18: put sweeps before inserting.  Right after a put(state, verifier) the
\* store holds no entry older than the TTL, it holds state -> verifier stamped
\* with the current time, and every other entry that was not older than the
\* TTL is still there, as it was.
C18_PutSweeps ==
    [][\A s \in DOMAIN issued' :
          (s \notin DOMAIN issued \/ issued'[s].n # issued[s].n) =>
             /\ \A x \in DOMAIN verifierStore' :
                   now' - verifierStore'[x].createdAt <= VERIFIER_TTL
             /\ s \in DOMAIN verifierStore'
             /\ verifierStore'[s] =
                   [verifier |-> issued'[s].verifier, createdAt |-> now']
             /\ \A x \in DOMAIN verifierStore \ {s} :
                   now' - verifierStore[x].createdAt <= VERIFIER_TTL =>
                      /\ x \in DOMAIN verifierStore'
                      /\ verifierStore'[x] = verifierStore[x]]_vars

\* A state put at time 0 and never looked up, swept by a put made one
\* millisecond after its TTL; the store holds the new entry only
C18_Witness ==
    \E old, new \in DOMAIN issued :
       /\ issued[old].at = 0 /\ issued[old].taken = 0 /\ ~issued[old].used
       /\ issued[new].at = VERIFIER_TTL + 1 /\ now = VERIFIER_TTL + 1
       /\ DOMAIN verifierStore = {new}

\* C25: take frame.  take(state) removes at most the entry of state: every
\* other entry, expired ones included, is still there as it was, no entry is
\* added, and a take of a state that is not in the store leaves it unchanged.
C25_TakeFrame ==
    [][\A t \in Tasks :
          LET s == task'[t].state
          IN  Takes(t) =>
                 /\ \A x \in DOMAIN verifierStore \ {s} :
                       /\ x \in DOMAIN verifierStore'
                       /\ verifierStore'[x] = verifierStore[x]
                 /\ DOMAIN verifierStore' \subseteq DOMAIN verifierStore
                 /\ s \notin DOMAIN verifierStore => verifierStore' = verifierStore]_vars

\* Request 1 took the verifier of one state while the store held an entry
\* older than the TTL under another state; that entry is still in the store
C25_Witness ==
    \E old \in DOMAIN verifierStore :
       /\ now - verifierStore[old].createdAt > VERIFIER_TTL
       /\ task[1].pc = "cb_exchange"
       /\ task[1].state # old
       /\ task[1].state \notin DOMAIN verifierStore

----------------------------------------------------------------------------
(* Properties of the credential store (SpecFlow), the token refresher and  *)
(* the API gateway (SpecGateway)                                           *)

\* C4: at most one Credential exists in the Credential Store in every reachable
\* state, whatever the interleaving of concurrent replace operations.
C4_AtMostOneCredential == Cardinality(rows) <= 1

\* C5: replace appears atomic to readers.  While a replace runs on a store that
\* holds a Credential, current() never returns "none" and exists() never
\* returns false: the DELETE of storeTokens leaves no observable empty store.
C5_ReplaceAtomicToReaders ==
    [][\A t \in Tasks :
          (/\ task[t].pc = "cb_exchange" /\ task'[t].pc = "st_insert"
           /\ hasTokens(rows)) =>
              /\ getTokens(rows') # NoTokens
              /\ hasTokens(rows')]_vars

\* C6: sequential replace does not accumulate.  When a replace that no other
\* replace overlapped completes, the store holds exactly one Credential, and
\* current() returns the arguments of that replace with the id it returned; on a
\* fresh store that id is 1.
C6_SequentialReplace ==
    [][\A t \in Tasks :
          (/\ task[t].pc = "st_insert" /\ task'[t].pc = "done"
           /\ task[t].alone) =>
              /\ Cardinality(rows') = 1
              /\ getTokens(rows') =
                    [id |-> task'[t].result.id,
                     accessToken |-> task[t].tokenResponse.access_token,
                     refreshToken |-> task[t].tokenResponse.refresh_token,
                     instanceUrl |-> task[t].tokenResponse.instance_url]
              /\ task'[t].result.kind = "Connected"
              /\ (nextId = 1 => task'[t].result.id = 1)]_vars

\* Two replaces on a fresh store, one after the other: they returned ids 1 and 2,
\* and the store holds the one row with id 2
C6_Witness ==
    /\ task[1].result.kind = "Connected" /\ task[1].alone /\ task[1].result.id = 1
    /\ task[2].result.kind = "Connected" /\ task[2].alone /\ task[2].result.id = 2
    /\ Cardinality(rows) = 1
    /\ getTokens(rows).id = 2

\* A call whose first response is 401 and whose second is a success
RetriedOk(tk) ==
    /\ Len(tk.recv) >= 2
    /\ tk.recv[1].status = 401
    /\ Ok(tk.recv[2].status)

\* What C7 says of such a call but for the token of the second request: one
\* refresh, two API requests, the second response's body returned
RetryOnceCounts(tk) ==
    RetriedOk(tk) =>
       /\ tk.pc = "done"
       /\ tk.result.kind = "ok"
       /\ tk.result.body = tk.recv[2].body
       /\ tk.nRefresh = 1
       /\ tk.nRequests = 2

\* C7 (as stated): retry once.  First response 401, second a success: refresh is
\* invoked exactly once, exactly two API requests are issued, the second with
\* the refreshed access token, and the second response's body is returned.
C7_RetryOnceRefreshedToken ==
    \A t \in Tasks :
       /\ RetryOnceCounts(task[t])
       /\ task[t].pc = "call_req2" =>
             task[t].request.accessToken = task[t].newTokens.accessToken

\* C7 (amended): as above, but the second request carries the access token and
\* instance URL of the Credential reloaded from the store after the refresh.
C7_RetryOnce ==
    [][\A t \in Tasks :
          /\ RetryOnceCounts(task'[t])
          /\ (task[t].pc = "call_reload" /\ task'[t].pc = "call_req2") =>
                task'[t].request =
                   makeRequest(getTokens(rows).accessToken, getTokens(rows).instanceUrl)]_vars

\* A call answered 401 then 200: it refreshed once, sent two requests and
\* returned the body of the 200
C7_Witness ==
    \E t \in Tasks :
       /\ task[t].op = "call" /\ task[t].pc = "done"
       /\ task[t].recv = << [status |-> 401, body |-> "B401"],
                            [status |-> 200, body |-> "B200"] >>
       /\ task[t].result.kind = "ok" /\ task[t].result.body = "B200"
       /\ task[t].nRefresh = 1 /\ task[t].nRequests = 2 /\ task[t].tokenReqs = 1

\* C8: no second refresh.  When the first request and the request reissued after
\* a successful refresh both return 401, call fails with ApiError carrying 401,
\* having invoked refresh exactly once and issued exactly two requests.
C8_NoSecondRefresh ==
    \A t \in Tasks :
       (/\ Len(task[t].recv) >= 2
        /\ task[t].recv[1].status = 401
        /\ task[t].recv[2].status = 401) =>
           /\ task[t].pc = "done"
           /\ task[t].result.kind = "ApiError"
           /\ task[t].result.status = 401
           /\ task[t].nRefresh = 1
           /\ task[t].tokenReqs = 1
           /\ task[t].nRequests = 2
           /\ Len(task[t].recv) = 2

\* A call answered 401 twice, failed with ApiError 401
C8_Witness ==
    \E t \in Tasks :
       /\ task[t].op = "call" /\ task[t].pc = "done"
       /\ Len(task[t].recv) = 2
       /\ task[t].recv[1].status = 401 /\ task[t].recv[2].status = 401
       /\ task[t].result.kind = "ApiError" /\ task[t].result.status = 401

\* C9: fail fast.  If the Credential Store is empty when call starts, call
\* fails with NotConnected, having issued no API request and invoked no refresh,
\* and the store is unchanged.
C9_FailFast ==
    [][\A t \in Tasks :
          (/\ task[t].pc = "idle" /\ task'[t].op = "call"
           /\ rows = {}) =>
              /\ task'[t].pc = "done"
              /\ task'[t].result.kind = "NotConnected"
              /\ task'[t].nRequests = 0
              /\ task'[t].nRefresh = 0
              /\ task'[t].tokenReqs = 0
              /\ rows' = rows]_vars

\* A call that failed with NotConnected on a store emptied by /disconnect
C9_Witness ==
    \E t \in Tasks :
       /\ task[t].op = "call" /\ task[t].pc = "done"
       /\ task[t].result.kind = "NotConnected"
       /\ rows = {} /\ nextId = 2

\* C10: refresh with no credential.  refresh on an empty Credential Store fails
\* with NoCredential, sends no request to the token endpoint and leaves the
\* store unchanged.
C10_RefreshNoCredential ==
    [][\A t \in Tasks :
          (/\ task'[t].nRefresh = task[t].nRefresh + 1
           /\ rows = {}) =>
              /\ task'[t].pc = "done"
              /\ \/ task'[t].result.kind = "NoCredential"
                 \/ /\ task'[t].op = "call"
                    /\ task'[t].result.kind = "RefreshFailed"
                    /\ task'[t].result.cause = "NoCredential"
              /\ task'[t].tokenReqs = 0
              /\ rows' = rows]_vars

\* A direct refresh, and a refresh inside a call, that failed with NoCredential
C10_Witness ==
    \E t, u \in Tasks :
       /\ task[t].op = "refresh" /\ task[t].result.kind = "NoCredential"
       /\ task[t].tokenReqs = 0
       /\ task[u].op = "call" /\ task[u].result.cause = "NoCredential"
       /\ task[u].tokenReqs = 0 /\ task[u].nRequests = 1
       /\ rows = {}

\* C11: refresh rejected.  When the token endpoint answers the refresh POST with
\* a non-success status, refresh fails with RefreshRejected (inside a call: the
\* call fails reporting it), posts no further grant, and the stored Credential
\* is unchanged.
C11_RefreshRejected ==
    [][\A t \in Tasks, data \in RefreshData :
          RefreshResponse(t, FALSE, data) =>
             /\ task'[t].pc = "done"
             /\ \/ task'[t].result.kind = "RefreshRejected"
                \/ /\ task'[t].op = "call"
                   /\ task'[t].result.kind = "RefreshFailed"
                   /\ task'[t].result.cause = "RefreshRejected"
             /\ task'[t].tokenReqs = task[t].tokenReqs
             /\ task'[t].nRefresh = task[t].nRefresh
             /\ rows' = rows]_vars

\* A direct refresh that was rejected after one POST; the credential the table
\* held at start is still there, as it was
C11_Witness ==
    \E t \in Tasks :
       /\ task[t].op = "refresh" /\ task[t].pc = "done"
       /\ task[t].result.kind = "RefreshRejected"
       /\ task[t].tokenReqs = 1
       /\ rows = {PersistedRow}

\* The transitions of one call: Attempt1 (call_req1), Refresh (rf_post and the
\* reload that follows it), Attempt2 (call_req2), Done
CallTransitions ==
    { <<"idle", "call_req1">>, <<"idle", "done">>,
      <<"call_req1", "done">>, <<"call_req1", "rf_post">>,
      <<"rf_post", "call_reload">>, <<"rf_post", "done">>,
      <<"call_reload", "call_req2">>, <<"call_reload", "done">>,
      <<"call_req2", "done">> }

\* C19: call is a bounded state machine that always terminates.  A call moves
\* only along Attempt1 -> Done or Attempt1 -> Refresh -> Attempt2 -> Done (or
\* leaves with an error), issues at most two API requests and invokes refresh
\* at most once, and, every outstanding request being answered, it ends.
C19_CallTerminates ==
    /\ [](\A t \in Tasks : task[t].op = "call" =>
              /\ task[t].nRequests <= 2
              /\ task[t].nRefresh <= 1
              /\ task[t].tokenReqs <= 1)
    /\ [][\A t \in Tasks :
             (task'[t].op = "call" /\ task'[t] # task[t]) =>
                <<task[t].pc, task'[t].pc>> \in CallTransitions]_vars
    /\ \A t \in Tasks :
          (task[t].op = "call" /\ task[t].pc # "done") ~> (task[t].pc = "done")

\* A call that went Attempt1 -> Refresh -> Attempt2 -> Done and failed on the
\* second response, a 500
C19_Witness ==
    \E t \in Tasks :
       /\ task[t].op = "call" /\ task[t].pc = "done"
       /\ task[t].nRequests = 2 /\ task[t].nRefresh = 1
       /\ task[t].result.kind = "ApiError" /\ task[t].result.status = 500

\* C20: refresh is triggered only by 401.  When the first response has a status
\* other than 401, call has issued exactly one request, invokes no refresh and
\* leaves the store unchanged; it returns the body on a success status and
\* otherwise fails with ApiError carrying the status of that response.
C20_RefreshOnlyOn401 ==
    [][\A t \in Tasks, r \in Responses :
          (/\ task[t].pc = "call_req1"
           /\ task'[t].recv = <<r>>
           /\ r.status # 401) =>
              /\ task'[t].pc = "done"
              /\ task'[t].nRequests = 1
              /\ task'[t].nRefresh = 0
              /\ task'[t].tokenReqs = 0
              /\ rows' = rows
              /\ task'[t].result.status = r.status
              /\ task'[t].result.body = r.body
              /\ task'[t].result.kind = IF Ok(r.status) THEN "ok" ELSE "ApiError"]_vars

\* A call that returned the body of a first response 200, and a call that
\* failed on a first response 500; neither refreshed
C20_Witness ==
    \E t, u \in Tasks :
       /\ task[t].recv = << [status |-> 200, body |-> "B200"] >>
       /\ task[t].result.kind = "ok" /\ task[t].result.body = "B200"
       /\ task[u].recv = << [status |-> 500, body |-> "B500"] >>
       /\ task[u].result.kind = "ApiError" /\ task[u].result.status = 500
       /\ task[t].nRefresh = 0 /\ task[u].nRefresh = 0
       /\ rows = {PersistedRow}

\* In this step the refresh that call t invoked fails: its getTokens reads an
\* empty table, or the token endpoint rejects the grant
RefreshFails(t) ==
    /\ task[t].op = "call"
    /\ \/ /\ task[t].pc = "call_req1" /\ rows = {}
          /\ task'[t].nRefresh = task[t].nRefresh + 1
       \/ \E data \in RefreshData : RefreshResponse(t, FALSE, data)

\* C21: a failed refresh aborts the call.  When the first response is 401 and
\* the refresh it triggers fails (NoCredential or RefreshRejected), call fails
\* with an error that reports the refresh failure, having issued exactly one
\* API request and invoked refresh once; nothing is reissued.
C21_FailedRefreshAborts ==
    [][\A t \in Tasks :
          RefreshFails(t) =>
             /\ task'[t].pc = "done"
             /\ task'[t].result.kind = "RefreshFailed"
             /\ task'[t].result.cause \in {"NoCredential", "RefreshRejected"}
             /\ task'[t].recv = << [status |-> 401, body |-> "B401"] >>
             /\ task'[t].nRequests = 1
             /\ task'[t].nRefresh = 1]_vars

\* Two calls answered 401: the refresh of one was rejected by the token
\* endpoint, the refresh of the other found the store emptied by /disconnect
C21_Witness ==
    \E t, u \in Tasks :
       /\ task[t].op = "call" /\ task[t].result.kind = "RefreshFailed"
       /\ task[t].result.cause = "RefreshRejected"
       /\ task[t].nRequests = 1 /\ task[t].tokenReqs = 1
       /\ task[u].op = "call" /\ task[u].result.kind = "RefreshFailed"
       /\ task[u].result.cause = "NoCredential"
       /\ task[u].nRequests = 1 /\ task[u].tokenReqs = 0

\* C24: a call racing with a disconnect does not retry with stale credentials.
\* If the store is empty when call, after a first response 401, reads it again
\* (for the refresh, or for the reload that follows the refresh), call fails
\* with an error and sends no second request: the one request it sent is the
\* first one.
C24_NoStaleRetry ==
    [][\A t \in Tasks :
          (/\ task[t].op = "call"
           /\ task[t].pc \in {"call_req1", "call_reload"}
           /\ task'[t] # task[t]
           /\ task'[t].recv[1].status = 401
           /\ rows = {}) =>
              /\ task'[t].pc = "done"
              /\ task'[t].result.kind = "RefreshFailed"
              /\ task'[t].nRequests = 1
              /\ rows' = {}]_vars

\* A call whose refresh succeeded and whose reload found the store emptied by
\* /disconnect: it failed, having sent its first request only
C24_Witness ==
    \E t \in Tasks :
       /\ task[t].op = "call" /\ task[t].pc = "done"
       /\ task[t].result.kind = "RefreshFailed" /\ task[t].result.cause = "TypeError"
       /\ task[t].nRequests = 1 /\ task[t].tokenReqs = 1
       /\ rows = {}

----------------------------------------------------------------------------
(* Properties of the token refresher racing with the authorization flow    *)
(* and /disconnect (SpecRace)                                              *)

\* What C12 says refresh returns: the response's token, and the response's
\* instance URL if present, otherwise the one of the Credential refresh read
Returned(data, read) ==
    [accessToken |-> data.access_token,
     instanceUrl |-> IF data.instance_url = "" THEN read.instanceUrl
                     ELSE data.instance_url]

\* C12 (as stated): refresh success.  When the provider accepts the grant, the
\* stored Credential's access token becomes the response's access token, and
\* refresh returns the response's token with the response's instance URL or,
\* if absent, the stored one.
C12_RefreshSuccessStored ==
    [][\A t \in Tasks, data \in RefreshData :
          RefreshResponse(t, TRUE, data) =>
             /\ rows' # {} => getTokens(rows').accessToken = data.access_token
             /\ task'[t].newTokens = Returned(data, task[t].rtokens)]_vars

\* C12 (amended): when the provider accepts the grant, the row refresh read at
\* its start, if it is still in the table, gets the response's access token;
\* every other row is left as it is and no row is added or removed; refresh
\* returns the response's token with the response's instance URL or, if
\* absent, the instance URL of the Credential it read.
C12_RefreshSuccess ==
    [][\A t \in Tasks, data \in RefreshData :
          RefreshResponse(t, TRUE, data) =>
             LET read == task[t].rtokens
             IN  /\ \A r \in rows :
                       IF r.id = read.id
                       THEN [r EXCEPT !.access_token = data.access_token] \in rows'
                       ELSE r \in rows'
                 /\ Cardinality(rows') = Cardinality(rows)
                 /\ task'[t].newTokens = Returned(data, read)]_vars

\* A direct refresh whose response carried no instance URL: the stored row has
\* the new access token, and the refresh returned it with the stored URL
C12_Witness ==
    \E t \in Tasks :
       /\ task[t].op = "refresh" /\ task[t].result.kind = "Refreshed"
       /\ task[t].newTokens = [accessToken |-> "AT3", instanceUrl |-> "U0"]
       /\ rows = {[PersistedRow EXCEPT !.access_token = "AT3"]}

\* C13: the instance URL follows the refresh.  After a successful refresh whose
\* response carries an instance URL, the request that call reissues is sent to
\* that URL, and the stored Credential has it.
C13_InstanceUrlFollowsRefresh ==
    \A t \in Tasks :
       (task[t].pc = "call_req2" /\ task[t].data.instance_url # "") =>
          /\ task[t].request.instanceUrl = task[t].data.instance_url
          /\ \A r \in rows : r.id = task[t].rtokens.id =>
                 r.instance_url = task[t].data.instance_url

\* What a row keeps of the replace that wrote it
Written(table) ==
    {[id |-> r.id, refresh_token |-> r.refresh_token, instance_url |-> r.instance_url] :
        r \in table}

\* C14: updateAccessToken frame.  In every step of a refresh or of a gateway
\* call, each row keeps the id, refresh token and instance URL its replace
\* wrote, no row is created or removed, and the only row whose access token
\* changes is the one with the id that refresh read.
C14_UpdateFrame ==
    [][\A t \in Tasks :
          (task'[t] # task[t] /\ task'[t].op \in {"call", "refresh"}) =>
             /\ Written(rows') = Written(rows)
             /\ Cardinality(rows') = Cardinality(rows)
             /\ \A r \in rows : r.id # task[t].rtokens.id => r \in rows']_vars

\* A call answered 401 then 200 whose refresh response carried the instance URL
\* U3: the stored row has the new access token and all else as it was written
C14_Witness ==
    \E t \in Tasks :
       /\ task[t].op = "call" /\ task[t].result.kind = "ok" /\ task[t].nRefresh = 1
       /\ rows = {[PersistedRow EXCEPT !.access_token = "AT4"]}

\* C15: exists() agrees with current().  In every reachable state hasTokens is
\* true exactly when getTokens returns a Credential.
C15_ExistsIffCurrent == hasTokens(rows) <=> getTokens(rows) # NoTokens

\* A table of one row left by a replace and updated by a refresh since
C15_Witness ==
    /\ \E r \in rows : r.id = nextId - 1 /\ r.access_token \in {"AT3", "AT4"}
    /\ \E t \in Tasks : task[t].result.kind = "Connected"
    /\ hasTokens(rows) /\ getTokens(rows) # NoTokens

\* C16: clear is idempotent and total.  After /disconnect from any table the
\* table is empty, getTokens returns null and hasTokens false, and a second
\* clear changes nothing; a call that starts on the emptied store fails with
\* NotConnected.
C16_ClearTotal ==
    [][/\ Disconnect =>
             /\ rows' = {}
             /\ getTokens(rows') = NoTokens
             /\ ~hasTokens(rows')
             /\ deleteTokens(rows') = rows'
       /\ \A t \in Tasks :
             (task[t].pc = "idle" /\ task'[t].op = "call" /\ rows = {}) =>
                task'[t].result.kind = "NotConnected"]_vars

\* A /callback stored a credential, /disconnect cleared the store, and the call
\* that came next failed with NotConnected
C16_Witness ==
    /\ task[1].op = "callback" /\ task[1].result.kind = "Connected"
    /\ task[2].op = "call" /\ task[2].result.kind = "NotConnected"
    /\ rows = {} /\ ~hasTokens(rows)

\* C22: a refresh racing with a replace never clobbers the new credential.  If
\* a replace stored a new row after refresh read the old one, the UPDATE of
\* that refresh leaves the new row as the replace wrote it: current() returns
\* the same Credential before and after.
C22_RefreshKeepsNewCredential ==
    [][\A t \in Tasks, data \in RefreshData :
          (/\ RefreshResponse(t, TRUE, data)
           /\ \E r \in rows : r.id > task[t].rtokens.id) =>
              /\ \A r \in rows : r.id > task[t].rtokens.id => r \in rows'
              /\ getTokens(rows') = getTokens(rows)]_vars

\* A refresh read the row of id 1; a /callback then replaced it by the row of
\* id 2; the refresh succeeded, and the row of id 2 is as the replace wrote it
C22_Witness ==
    \E t, u \in Tasks, resp \in TokenResponses :
       /\ task[t].result.kind = "Refreshed"
       /\ task[u].result.kind = "Connected" /\ task[u].result.id = 2
       /\ t < u
       /\ rows = { [id |-> 2, access_token |-> resp.access_token,
                    refresh_token |-> resp.refresh_token,
                    instance_url |-> resp.instance_url] }

\* C23: a refresh racing with a disconnect never resurrects a credential.  If
\* the store was cleared after refresh read the Credential, the UPDATE of that
\* refresh leaves the store empty: exists() is false afterwards.
C23_RefreshNoResurrection ==
    [][\A t \in Tasks, data \in RefreshData :
          (RefreshResponse(t, TRUE, data) /\ rows = {}) =>
             /\ rows' = {}
             /\ ~hasTokens(rows')
             /\ getTokens(rows') = NoTokens]_vars

\* A direct refresh that read the credential the table held at start and
\* succeeded, and a table that /disconnect emptied
C23_Witness ==
    \E t \in Tasks :
       /\ task[t].op = "refresh" /\ task[t].result.kind = "Refreshed"
       /\ rows = {} /\ ~hasTokens(rows) /\ nextId = 2

====
